---- MODULE Spec2Model ----
(***************************************************************************)
(* Travel OS (src/app.py): a Streamlit script that is re-executed from top *)
(* to bottom on every change of an input widget.  The model keeps the      *)
(* widget values and the values the script computes and displays.          *)
(*                                                                         *)
(* Number representation.  Money is kept in cents (price_km is a whole     *)
(* number of cents per km, city prices are whole euros).  A transport      *)
(* score is kept in units of 1/ScoreUnit, in which every term of the       *)
(* score is a whole number, so the arithmetic below is exact.  The script  *)
(* evaluates the same expressions in binary64; for the whole-km distances  *)
(* of KmInputs and of the three routes the order of the four scores (ties  *)
(* included) is the same in binary64 as in exact arithmetic.               *)
(***************************************************************************)
EXTENDS Integers, Sequences, FiniteSets, TLC

\* ---------------------------------------------------------------- bounds
MaxKm == 1500            \* distances 0..MaxKm are tried km by km
MaxKmHundreds == 100   \* and the multiples of 100 km up to this many hundreds
MaxRiskCents == 250    \* budget_risk is tried on totals 0..MaxRiskCents cents
MaxRiskBudget == 2     \* and on budgets 1..MaxRiskBudget euros
MaxDateOffset == 1     \* start dates today .. today + MaxDateOffset

\* ---------------------------------------------------------- fixed point
CentsPerEuro == 10 * 10
ScoreUnit == 100 * 100

\* ------------------------------------------------------------- catalog
City(name, country, hotel, food, safety, internet, walkability, nightlife, culture) ==
    [name |-> name, country |-> country, hotel |-> hotel, food |-> food,
     safety |-> safety, internet |-> internet, walkability |-> walkability,
     nightlife |-> nightlife, culture |-> culture]

CITIES ==
    [c \in {"Sofia", "Belgrade", "Budapest", "Vienna", "Prague", "Munich"} |->
        CASE c = "Sofia"    -> City("Sofia", "Bulgaria", 70, 20, 7, 8, 6, 6, 8)
          [] c = "Belgrade" -> City("Belgrade", "Serbia", 65, 22, 6, 7, 6, 7, 7)
          [] c = "Budapest" -> City("Budapest", "Hungary", 75, 23, 8, 8, 7, 8, 8)
          [] c = "Vienna"   -> City("Vienna", "Austria", 95, 30, 9, 9, 8, 6, 9)
          [] c = "Prague"   -> City("Prague", "Czech Republic", 85, 25, 8, 8, 9, 7, 9)
          [] c = "Munich"   -> City("Munich", "Germany", 100, 28, 9, 9, 8, 6, 8)]

ROUTES ==
    [r \in {"Balkan Core", "Central Europe", "Grand Explorer"} |->
        CASE r = "Balkan Core"    -> <<"Sofia", "Belgrade", "Budapest">>
          [] r = "Central Europe" -> <<"Munich", "Vienna", "Prague", "Budapest">>
          [] r = "Grand Explorer" ->
                <<"Sofia", "Belgrade", "Budapest", "Vienna", "Prague", "Munich">>]

\* ROUTES.keys() in insertion order; the selectbox starts on the first one
RouteNames == <<"Balkan Core", "Central Europe", "Grand Explorer">>

DISTANCE_PER_SEGMENT == 300

\* --------------------------------------------------------- transport
\* price_km in cents per km: 0.25, 0.18, 0.45, 0.12 euro
Transport(name, price_km, speed, comfort, eco) ==
    [name |-> name, price_km |-> price_km, speed |-> speed,
     comfort |-> comfort, eco |-> eco]

Car == Transport("Car", 25, 80, 7, 6)
Train == Transport("Train", 18, 130, 8, 9)
Plane == Transport("Plane", 45, 650, 9, 3)
Bus == Transport("Bus", 12, 70, 5, 7)

\* Transport.cost(km) = km * price_km, in cents
Cost(t, km) == km * t.price_km

\* Transport.time(km) = km / speed, kept as the fraction km/speed (hours)
Time(t, km) == [num |-> km, den |-> t.speed]

\* the priority labels of the multiselect
Vocabulary == {"Low cost", "Comfort", "Fast", "Eco", "Nightlife", "Culture"}

\* ------------------------------------------------------------ City.score
\* round(num/den, 2) in hundredths, ties to even as Python's round
Round2(num, den) ==
    LET q == (num * 100) \div den
        r == (num * 100) % den
    IN  IF 2 * r > den THEN q + 1
        ELSE IF 2 * r = den THEN q + (q % 2)
        ELSE q

CityScoreAllRatings(city) ==
    Round2(city.safety + city.internet + city.walkability + city.culture
           + city.nightlife, 5)
\* City.score(), in hundredths
CityScore(city) ==
    Round2(city.safety + city.internet + city.walkability + city.culture, 4)

\* ------------------------------------------------- recommend_transport
\* the score of one mode: the body of the for loop, in units of 1/ScoreUnit
ModeScoreFastTenth(t, prios, km) ==
    LET s0 == 0
        s1 == IF "Low cost" \in prios
              THEN s0 - Cost(t, km) * (ScoreUnit \div (CentsPerEuro * 100)) ELSE s0
        s2 == IF "Comfort" \in prios THEN s1 + t.comfort * 2 * ScoreUnit ELSE s1
        s3 == IF "Eco" \in prios THEN s2 + t.eco * 2 * ScoreUnit ELSE s2
        s4 == IF "Fast" \in prios THEN s3 + (t.speed * ScoreUnit) \div 10 ELSE s3
    IN  s4
ModeScore(t, prios, km) ==
    LET s0 == 0
        s1 == IF "Low cost" \in prios
              THEN s0 - Cost(t, km) * (ScoreUnit \div (CentsPerEuro * 100)) ELSE s0
        s2 == IF "Comfort" \in prios THEN s1 + t.comfort * 2 * ScoreUnit ELSE s1
        s3 == IF "Eco" \in prios THEN s2 + t.eco * 2 * ScoreUnit ELSE s2
        s4 == IF "Fast" \in prios THEN s3 + (t.speed * ScoreUnit) \div 100 ELSE s3
    IN  s4

\* list.sort(reverse=True, key=score) is stable: an element is placed after
\* every element whose score is greater than or equal to its own
RECURSIVE InsertDescAfterGreaterOnly(_, _)
InsertDescAfterGreaterOnly(s, x) ==
    IF s = <<>> THEN <<x>>
    ELSE IF Head(s).score > x.score
         THEN <<Head(s)>> \o InsertDescAfterGreaterOnly(Tail(s), x)
         ELSE <<x>> \o s
RECURSIVE InsertDesc(_, _)
InsertDesc(s, x) ==
    IF s = <<>> THEN <<x>>
    ELSE IF Head(s).score >= x.score
         THEN <<Head(s)>> \o InsertDesc(Tail(s), x)
         ELSE <<x>> \o s

RECURSIVE SortDescFrom(_, _)
SortDescFrom(acc, rest) ==
    IF rest = <<>> THEN acc
    ELSE SortDescFrom(InsertDesc(acc, Head(rest)), Tail(rest))

SortDesc(s) == SortDescFrom(<<>>, s)

\* the list `scored` as it is when the function returns
Scored(prios, km) ==
    LET options == <<Car, Train, Plane, Bus>>
    IN  SortDesc([i \in 1..Len(options) |->
                    [score |-> ModeScore(options[i], prios, km), t |-> options[i]]])

recommend_transport_last(prios, km) ==
    LET scored == Scored(prios, km) IN scored[Len(scored)].t
recommend_transport(prios, km) == Scored(prios, km)[1].t

\* ---------------------------------------------------------- budget_risk
\* total in cents, budget in euros; ratio = total / budget as a fraction
Ratio(total, budget) == [num |-> total, den |-> budget * CentsPerEuro]

RatLess(a, b) == a.num * b.den < b.num * a.den
RatLeq(a, b) == a.num * b.den <= b.num * a.den

budget_risk_low_inclusive(total, budget) ==
    LET ratio == Ratio(total, budget)
    IN  IF RatLeq(ratio, [num |-> 85, den |-> 100]) THEN "LOW"
        ELSE IF RatLeq(ratio, [num |-> 1, den |-> 1]) THEN "MEDIUM"
        ELSE "HIGH"
budget_risk(total, budget) ==
    LET ratio == Ratio(total, budget)
    IN  IF RatLess(ratio, [num |-> 85, den |-> 100]) THEN "LOW"
        ELSE IF RatLeq(ratio, [num |-> 1, den |-> 1]) THEN "MEDIUM"
        ELSE "HIGH"

\* ---------------------------------------------------------- the script
\* max(cities, key=...): the first city of the sequence with the greatest
\* rating; field is "nightlife" or "culture"
RECURSIVE MaxByFromLast(_, _, _)
MaxByFromLast(best, rest, field) ==
    IF rest = <<>> THEN best
    ELSE IF CITIES[Head(rest)][field] >= CITIES[best][field]
         THEN MaxByFromLast(Head(rest), Tail(rest), field)
         ELSE MaxByFromLast(best, Tail(rest), field)
RECURSIVE MaxByFrom(_, _, _)
MaxByFrom(best, rest, field) ==
    IF rest = <<>> THEN best
    ELSE IF CITIES[Head(rest)][field] > CITIES[best][field]
         THEN MaxByFrom(Head(rest), Tail(rest), field)
         ELSE MaxByFrom(best, Tail(rest), field)

MaxBy(cities, field) == MaxByFrom(Head(cities), Tail(cities), field)

\* hotel_total = 0; food_total = 0 before the loop over the cities; prev
\* holds the totals the previous execution of the script ended with
TotalsCarriedOver(prev) ==
    [hotel_total |-> prev.hotel_total, food_total |-> prev.food_total, cards |-> <<>>]
TotalsStart(prev) == [hotel_total |-> 0, food_total |-> 0, cards |-> <<>>]

\* one iteration of `for c in cities`: the two += and the city card
CityStepPlusDays(acc, c, days) ==
    LET city == CITIES[c]
    IN  [hotel_total |-> acc.hotel_total + CentsPerEuro * (city.hotel + days),
         food_total |-> acc.food_total + CentsPerEuro * (city.food + days),
         cards |-> Append(acc.cards, [name |-> city.name, score |-> CityScore(city)])]
CityStepNights(acc, c, days) ==
    LET city == CITIES[c]
    IN  [hotel_total |-> acc.hotel_total + CentsPerEuro * (city.hotel * (days - 1)),
         food_total |-> acc.food_total + CentsPerEuro * (city.food * days),
         cards |-> Append(acc.cards, [name |-> city.name, score |-> CityScore(city)])]
CityStep(acc, c, days) ==
    LET city == CITIES[c]
    IN  [hotel_total |-> acc.hotel_total + CentsPerEuro * (city.hotel * days),
         food_total |-> acc.food_total + CentsPerEuro * (city.food * days),
         cards |-> Append(acc.cards, [name |-> city.name, score |-> CityScore(city)])]

RECURSIVE CityLoop(_, _, _)
CityLoop(acc, rest, days) ==
    IF rest = <<>> THEN acc
    ELSE CityLoop(CityStep(acc, Head(rest), days), Tail(rest), days)

\* one execution of the script below the sidebar, for the widget values given
RunScript(prev, route, bud, days, prios) ==
    LET cities == ROUTES[route]
        segments == Len(cities) - 1
        km == segments * DISTANCE_PER_SEGMENT
        t == recommend_transport(prios, km)
        loop == CityLoop(TotalsStart(prev), cities, days)
        tcost == Cost(t, km)
        total == loop.hotel_total + loop.food_total + tcost
    IN  [km_total |-> km,
         transport |-> t,
         n_cities |-> Len(cities),
         n_days |-> Len(cities) * days,
         city_cards |-> loop.cards,
         hotel_total |-> loop.hotel_total,
         food_total |-> loop.food_total,
         transport_cost |-> tcost,
         transport_time |-> Time(t, km),
         total_cost |-> total,
         ratio |-> Ratio(total, bud),
         risk |-> budget_risk(total, bud),
         nightlife_insight |->
            IF "Nightlife" \in prios THEN MaxBy(cities, "nightlife") ELSE "none",
         culture_insight |->
            IF "Culture" \in prios THEN MaxBy(cities, "culture") ELSE "none",
         eco_warning |-> (t.eco < 5 /\ "Eco" \in prios)]

\* ------------------------------------------------------------- widgets
MinBudget == 500
MaxBudget == 20000
DefaultBudget == 3500
MinDays == 1
MaxDays == 7
DefaultDays == 3

\* st.number_input(label, min_value, max_value, value): the value returned
\* for what the user typed lies between min_value and max_value
NumberInputUnclamped(typed, lo, hi) == typed
NumberInput(typed, lo, hi) ==
    IF typed < lo THEN lo ELSE IF typed > hi THEN hi ELSE typed

\* what the user types into the budget field
BudgetInputs == {0, 499, 933, 2360, 3500, 20001}

\* start dates, in days from today
StartDates == 0..MaxDateOffset

VARIABLES
    route_name, budget_typed, budget, start_date, days_city, priorities,
    display, days_doubled,
    rt_pc, rt_priorities, rt_km, rt_scored, rt_result,
    br_pc, br_total, br_budget, br_result

widgets == <<route_name, budget_typed, budget, start_date, days_city, priorities>>
rtVars == <<rt_pc, rt_priorities, rt_km, rt_scored, rt_result>>
brVars == <<br_pc, br_total, br_budget, br_result>>
vars == <<widgets, display, days_doubled, rtVars, brVars>>

RtIdle ==
    /\ rt_pc = "idle" /\ rt_priorities = {} /\ rt_km = 0
    /\ rt_scored = <<>> /\ rt_result = "none"
BrIdle ==
    /\ br_pc = "idle" /\ br_total = 0 /\ br_budget = 1 /\ br_result = "none"

\* ------------------------------------------------ Spec: the application
Init ==
    /\ route_name = RouteNames[1]
    /\ budget_typed = DefaultBudget
    /\ budget = NumberInput(DefaultBudget, MinBudget, MaxBudget)
    /\ start_date = 0
    /\ days_city = DefaultDays
    /\ priorities = {}
    /\ display = RunScript([hotel_total |-> 0, food_total |-> 0],
                           RouteNames[1], budget, DefaultDays, {})
    /\ days_doubled = FALSE
    /\ RtIdle
    /\ BrIdle

\* the whole script runs again with the new widget values; days_doubled
\* records that this execution follows a move of the slider from d to 2d
Rerun ==
    /\ display' = RunScript(display, route_name', budget', days_city', priorities')
    /\ UNCHANGED <<rtVars, brVars>>

SelectRoute ==
    \E i \in 1..Len(RouteNames) :
        /\ RouteNames[i] # route_name
        /\ route_name' = RouteNames[i]
        /\ UNCHANGED <<budget_typed, budget, start_date, days_city, priorities>>
        /\ days_doubled' = FALSE
        /\ Rerun

SetBudget ==
    \E typed \in BudgetInputs :
        /\ NumberInput(typed, MinBudget, MaxBudget) # budget
        /\ budget_typed' = typed
        /\ budget' = NumberInput(typed, MinBudget, MaxBudget)
        /\ UNCHANGED <<route_name, start_date, days_city, priorities>>
        /\ days_doubled' = FALSE
        /\ Rerun

SetStartDate ==
    \E dt \in StartDates :
        /\ dt # start_date
        /\ start_date' = dt
        /\ UNCHANGED <<route_name, budget_typed, budget, days_city, priorities>>
        /\ days_doubled' = FALSE
        /\ Rerun

SetDaysCity ==
    \E d \in MinDays..MaxDays :
        /\ d # days_city
        /\ days_city' = d
        /\ UNCHANGED <<route_name, budget_typed, budget, start_date, priorities>>
        /\ days_doubled' = (d = 2 * days_city)
        /\ Rerun

\* the multiselect adds or removes one label at a time
TogglePriority ==
    \E p \in Vocabulary :
        /\ priorities' = IF p \in priorities THEN priorities \ {p}
                         ELSE priorities \cup {p}
        /\ UNCHANGED <<route_name, budget_typed, budget, start_date, days_city>>
        /\ days_doubled' = FALSE
        /\ Rerun

Next ==
    \/ SelectRoute
    \/ SetBudget
    \/ SetStartDate
    \/ SetDaysCity
    \/ TogglePriority

Spec == Init /\ [][Next]_vars

\* --------------------------------- SpecRecommend: recommend_transport alone
KmInputs ==
    (0..MaxKm) \cup {100 * h : h \in 0..MaxKmHundreds}
               \cup {(Len(ROUTES[r]) - 1) * DISTANCE_PER_SEGMENT : r \in DOMAIN ROUTES}

AppIdle ==
    /\ route_name = RouteNames[1]
    /\ budget_typed = DefaultBudget
    /\ budget = DefaultBudget
    /\ start_date = 0
    /\ days_city = DefaultDays
    /\ priorities = {}
    /\ display = RunScript([hotel_total |-> 0, food_total |-> 0],
                           RouteNames[1], DefaultBudget, DefaultDays, {})
    /\ days_doubled = FALSE

InitRecommend ==
    /\ AppIdle
    /\ BrIdle
    /\ rt_pc = "call"
    /\ rt_priorities \in SUBSET Vocabulary
    /\ rt_km \in KmInputs
    /\ rt_scored = <<>>
    /\ rt_result = "none"

RecommendReturn ==
    /\ rt_pc = "call"
    /\ rt_scored' = Scored(rt_priorities, rt_km)
    /\ rt_result' = recommend_transport(rt_priorities, rt_km).name
    /\ rt_pc' = "return"
    /\ UNCHANGED <<rt_priorities, rt_km, widgets, display, days_doubled, brVars>>

\* the next call, with one label added to or removed from the priorities
RecommendAgain ==
    /\ rt_pc = "return"
    /\ \E p \in Vocabulary :
          rt_priorities' = IF p \in rt_priorities THEN rt_priorities \ {p}
                           ELSE rt_priorities \cup {p}
    /\ rt_scored' = <<>>
    /\ rt_result' = "none"
    /\ rt_pc' = "call"
    /\ UNCHANGED <<rt_km, widgets, display, days_doubled, brVars>>

NextRecommend ==
    \/ RecommendReturn
    \/ RecommendAgain

SpecRecommend == InitRecommend /\ [][NextRecommend]_vars

\* --------------------------------------------- SpecRisk: budget_risk alone
InitRisk ==
    /\ AppIdle
    /\ RtIdle
    /\ br_pc = "call"
    /\ br_total \in 0..MaxRiskCents
    /\ br_budget \in 1..MaxRiskBudget
    /\ br_result = "none"

RiskReturn ==
    /\ br_pc = "call"
    /\ br_result' = budget_risk(br_total, br_budget)
    /\ br_pc' = "return"
    /\ UNCHANGED <<br_total, br_budget, widgets, display, days_doubled, rtVars>>

\* the next call, with another budget
RiskAgain ==
    /\ br_pc = "return"
    /\ \E b \in 1..MaxRiskBudget : b # br_budget /\ br_budget' = b
    /\ br_result' = "none"
    /\ br_pc' = "call"
    /\ UNCHANGED <<br_total, widgets, display, days_doubled, rtVars>>

NextRisk ==
    \/ RiskReturn
    \/ RiskAgain

SpecRisk == InitRisk /\ [][NextRisk]_vars

\* ================================================================ claims
Modes == {Car, Train, Plane, Bus}
CanonicalOrder == <<"Car", "Train", "Plane", "Bus">>
ModeNamed(n) == CHOOSE m \in Modes : m.name = n

\* the score of a mode as the claims state it, in units of 1/10000:
\* (price_km * distance)/100 with price_km in cents per km is
\* price_km * distance units, 2 * rating is 20000 * rating units and
\* speed/100 is 100 * speed units
StatedScore(m, prios, km) ==
      (IF "Low cost" \in prios THEN 0 - m.price_km * km ELSE 0)
    + (IF "Comfort" \in prios THEN 20000 * m.comfort ELSE 0)
    + (IF "Eco" \in prios THEN 20000 * m.eco ELSE 0)
    + (IF "Fast" \in prios THEN 100 * m.speed ELSE 0)

\* the score the function computed for the mode named n
ComputedScore(n) ==
    LET i == CHOOSE j \in DOMAIN rt_scored : rt_scored[j].t.name = n
    IN  rt_scored[i].score

\* C1: for every priority subset and distance, recommend_transport returns
\* one of Car, Train, Plane, Bus; every mode's computed score is the stated
\* weighted sum and the returned mode's score is the greatest of the four.
\* At 600 km, {Eco} scores 12, 18, 6, 14 and returns Train; {Low cost}
\* scores -1.5, -1.08, -2.7, -0.72 and returns Bus.
C1_ReturnsMaxScore ==
    rt_pc = "return" =>
        /\ rt_result \in {m.name : m \in Modes}
        /\ Len(rt_scored) = 4
        /\ \A m \in Modes :
              /\ ComputedScore(m.name) = StatedScore(m, rt_priorities, rt_km)
              /\ StatedScore(ModeNamed(rt_result), rt_priorities, rt_km)
                    >= StatedScore(m, rt_priorities, rt_km)
        /\ (rt_km = 600 /\ rt_priorities = {"Eco"}) =>
              /\ ComputedScore("Car") = 120000
              /\ ComputedScore("Train") = 180000
              /\ ComputedScore("Plane") = 60000
              /\ ComputedScore("Bus") = 140000
              /\ rt_result = "Train"
        /\ (rt_km = 600 /\ rt_priorities = {"Low cost"}) =>
              /\ ComputedScore("Car") = 0 - 15000
              /\ ComputedScore("Train") = 0 - 10800
              /\ ComputedScore("Plane") = 0 - 27000
              /\ ComputedScore("Bus") = 0 - 7200
              /\ rt_result = "Bus"

C1_Witness ==
    /\ rt_pc = "return"
    /\ rt_km = 600
    /\ rt_priorities = {"Low cost"}
    /\ rt_result = "Bus"

C3_RiskBuckets ==
    br_pc = "return" =>
        /\ br_result \in {"LOW", "MEDIUM", "HIGH"}
        /\ br_result = "LOW" <=> br_total < 85 * br_budget
        /\ br_result = "MEDIUM" <=>
              (85 * br_budget <= br_total /\ br_total <= 100 * br_budget)
        /\ br_result = "HIGH" <=> br_total > 100 * br_budget

C3_Witness ==
    /\ br_pc = "return"
    /\ br_total = 85 * br_budget
    /\ br_result = "MEDIUM"

\* the sum of a price over the cities of a route, in euros
RECURSIVE SumOf(_, _)
SumOf(cities, field) ==
    IF cities = <<>> THEN 0
    ELSE CITIES[Head(cities)][field] + SumOf(Tail(cities), field)

\* C4: distance = (n - 1) * 300, hotelTotal = d * sum of hotel prices,
\* foodTotal = d * sum of food prices, transportCost = distance * price_km of
\* the recommended mode, grandTotal = their sum (amounts in cents).  Balkan
\* Core, {Eco}, d = 3: 600 km, 630, 195, 108, 933 euros, and LOW at budget 3500.
C4_CostAggregation ==
    LET cities == ROUTES[route_name]
    IN  /\ display.km_total = (Len(cities) - 1) * 300
        /\ display.hotel_total = 100 * days_city * SumOf(cities, "hotel")
        /\ display.food_total = 100 * days_city * SumOf(cities, "food")
        /\ display.transport = recommend_transport(priorities, display.km_total)
        /\ display.transport_cost = display.km_total * display.transport.price_km
        /\ display.total_cost =
              display.hotel_total + display.food_total + display.transport_cost
        /\ (route_name = "Balkan Core" /\ priorities = {"Eco"} /\ days_city = 3) =>
              /\ display.km_total = 600
              /\ display.hotel_total = 63000
              /\ display.food_total = 19500
              /\ display.transport_cost = 10800
              /\ display.total_cost = 93300
              /\ budget = 3500 => display.risk = "LOW"

C4_Witness ==
    /\ route_name = "Balkan Core"
    /\ priorities = {"Eco"}
    /\ days_city = 3
    /\ budget = 3500
    /\ display.total_cost = 93300
    /\ display.risk = "LOW"

\* C5: an execution that follows a change of days-per-city from d to 2d,
\* with route, budget and priorities unchanged, shows twice the hotel total
\* and twice the food total, and the same distance, transport and
\* transport cost.
C5_DoublingDays ==
    [][(/\ days_city' = 2 * days_city
        /\ route_name' = route_name
        /\ budget' = budget
        /\ priorities' = priorities)
       => (/\ display'.hotel_total = 2 * display.hotel_total
           /\ display'.food_total = 2 * display.food_total
           /\ display'.km_total = display.km_total
           /\ display'.transport = display.transport
           /\ display'.transport_cost = display.transport_cost)]_vars

C5_Witness ==
    /\ days_doubled
    /\ days_city = 6
    /\ route_name = "Grand Explorer"
    /\ display.hotel_total = 2 * (100 * 3 * SumOf(ROUTES[route_name], "hotel"))

\* C6: the score on every city card is the mean of safety, internet,
\* walkability and culture, rounded to 2 decimals (in hundredths: within
\* half a hundredth of the mean).
C6_CityScoreMean ==
    /\ Len(display.city_cards) = Len(ROUTES[route_name])
    /\ \A i \in DOMAIN display.city_cards :
          LET card == display.city_cards[i]
              city == CITIES[ROUTES[route_name][i]]
              sum4 == city.safety + city.internet + city.walkability + city.culture
              diff == 4 * card.score - 100 * sum4
          IN  /\ card.name = city.name
              /\ 0 - 2 <= diff /\ diff <= 2

C6_Witness ==
    /\ route_name = "Grand Explorer"
    /\ display.city_cards[1] = [name |-> "Sofia", score |-> 725]
    /\ display.city_cards[2] = [name |-> "Belgrade", score |-> 650]

\* position of the first occurrence of a city in a route
FirstIndex(cities, c) ==
    CHOOSE i \in DOMAIN cities :
        cities[i] = c /\ \A j \in 1..(i - 1) : cities[j] # c

\* top is the earliest city of the route with the greatest rating
EarliestMax(cities, top, field) ==
    /\ \E i \in DOMAIN cities : cities[i] = top
    /\ \A j \in DOMAIN cities :
          /\ CITIES[cities[j]][field] <= CITIES[top][field]
          /\ j < FirstIndex(cities, top) =>
                CITIES[cities[j]][field] < CITIES[top][field]

\* C7: a nightlife insight is shown iff Nightlife is selected and names the
\* earliest city of the route with the greatest nightlife rating; likewise
\* for Culture; on Central Europe and Grand Explorer the culture insight
\* names Vienna.
C7_Insights ==
    LET cities == ROUTES[route_name]
    IN  /\ display.nightlife_insight # "none" <=> "Nightlife" \in priorities
        /\ "Nightlife" \in priorities =>
              EarliestMax(cities, display.nightlife_insight, "nightlife")
        /\ display.culture_insight # "none" <=> "Culture" \in priorities
        /\ "Culture" \in priorities =>
              EarliestMax(cities, display.culture_insight, "culture")
        /\ ("Culture" \in priorities
              /\ route_name \in {"Central Europe", "Grand Explorer"}) =>
              display.culture_insight = "Vienna"

C7_Witness ==
    /\ route_name = "Central Europe"
    /\ "Culture" \in priorities
    /\ "Nightlife" \in priorities
    /\ display.culture_insight = "Vienna"
    /\ display.nightlife_insight = "Budapest"

\* C8: the budget that reaches budget_risk is strictly greater than 0, so
\* the divisor of total / budget is never zero or negative.
C8_BudgetPositive ==
    /\ budget > 0
    /\ display.ratio.den > 0
    /\ display.ratio = Ratio(display.total_cost, budget)

C8_Witness ==
    /\ budget_typed <= 0
    /\ budget = 500
    /\ display.ratio.den = 500 * 100
    /\ display.risk = "HIGH"

\* C9: whatever the sequence of input changes, everything displayed is what
\* one execution computes from the current selections alone, starting from
\* zero totals.
C9_NoCarryOver ==
    display = RunScript([hotel_total |-> 0, food_total |-> 0],
                        route_name, budget, days_city, priorities)

C9_Witness ==
    /\ route_name = "Grand Explorer"
    /\ budget = 933
    /\ start_date = 1
    /\ days_city = 7
    /\ priorities = {"Low cost", "Nightlife"}
    /\ display.hotel_total = 100 * 7 * 490
    /\ display.risk = "HIGH"

\* C10: the eco-conflict warning is never shown: whenever Eco is selected
\* the recommended mode has an eco rating of at least 5 (it is not Plane).
C10_NoEcoWarning ==
    /\ display.eco_warning = FALSE
    /\ "Eco" \in priorities =>
          /\ display.transport.eco >= 5
          /\ display.transport.name # "Plane"

C10_Witness ==
    /\ priorities = {"Eco", "Fast", "Comfort"}
    /\ route_name = "Grand Explorer"
    /\ display.km_total = 1500
    /\ display.transport.name = "Train"
    /\ display.eco_warning = FALSE
====
